---- MODULE Spec2Model ----
(***************************************************************************)
(* The data-transformation layer of src/India_Impacts.py: the daily totals *)
(* group-by, the Top-N/Bottom-N race selection and its long-form reshape,  *)
(* the latest-per-state snapshot merged with the population table, the     *)
(* May 2021 district zone classification and the age/gender sunburst       *)
(* rollup.  Tables are sequences of records (rows in row order).           *)
(***************************************************************************)
EXTENDS Integers, Sequences, FiniteSets, TLC

VARIABLES pc,
          df, daily, n, range_type, df_cumulative, selected_states, df_long,
          pop_data, covid_latest, merged,
          district_df, centroids, dist_merged,
          raw_age, age_df, names, parents, values

vars == <<pc, df, daily, n, range_type, df_cumulative, selected_states, df_long,
          pop_data, covid_latest, merged, district_df, centroids, dist_merged,
          raw_age, age_df, names, parents, values>>

tab1Vars == <<df, daily, n, range_type, df_cumulative, selected_states, df_long>>
tab2Vars == <<pop_data, covid_latest, merged>>
tab3Vars == <<district_df, centroids, dist_merged>>
tab4Vars == <<raw_age, age_df, names, parents, values>>

----------------------------------------------------------------------------
(* Bounds of the model.                                                    *)

\* rows of the state table fed to the daily totals group-by
MaxDailyRows == 3
\* rows of the state table fed to the race chart
MaxRaceRows == 4
\* case counts range over 0..MaxCount
MaxCount == 1

\* State names in ascending string order (the order pandas sorts them in).
StateOrder == <<"Assam", "Bihar", "Goa", "Kerala">>
\* Calendar dates of the state table, as day ordinals.
Dates == {1, 2}

----------------------------------------------------------------------------
(* Generic helpers.                                                        *)

Range(s) == {s[i] : i \in DOMAIN s}

Min2(a, b) == IF a <= b THEN a ELSE b

SeqsUpTo(S, k) == UNION {[1..m -> S] : m \in 0..k}

\* position of x in the sequence s (s has no duplicates and contains x)
IndexOf(s, x) == CHOOSE i \in DOMAIN s : s[i] = x

\* the elements of the table `order` (an ascending list) that lie in S, ascending
RECURSIVE SortedBy(_, _)
SortedBy(order, S) ==
    IF order = <<>> THEN <<>>
    ELSE (IF Head(order) \in S THEN <<Head(order)>> ELSE <<>>)
         \o SortedBy(Tail(order), S)

\* a finite set of integers as an ascending sequence
RECURSIVE SortedInts(_)
SortedInts(S) ==
    IF S = {} THEN <<>>
    ELSE LET m == CHOOSE x \in S : \A y \in S : x <= y
         IN  <<m>> \o SortedInts(S \ {m})

\* sum of column col over the rows of t, folding in row order
RECURSIVE SumCol(_, _)
SumCol(t, col) ==
    IF t = <<>> THEN 0 ELSE Head(t)[col] + SumCol(Tail(t), col)

----------------------------------------------------------------------------
(* Tab 1, daily totals: df.groupby("Date")[...].sum().reset_index()        *)

StateNames == Range(StateOrder)

DailyStateRecord ==
    [State : {"Goa", "Kerala"}, Date : Dates, Confirmed : 0..MaxCount,
     Recovered : {0, 2}, Deceased : {1}]

\* variant: the grouping lost, every row holds the totals of the whole table
GroupByDateSum_NoFilter(t) ==
    LET keys == SortedInts({t[i].Date : i \in DOMAIN t})
    IN  [k \in DOMAIN keys |->
            [Date      |-> keys[k],
             Confirmed |-> SumCol(t, "Confirmed"),
             Recovered |-> SumCol(t, "Recovered"),
             Deceased  |-> SumCol(t, "Deceased")]]

\* One output row per distinct Date, ascending by Date (groupby sorts its keys),
\* each metric the sum over the rows of the group.
GroupByDateSum(t) ==
    LET keys == SortedInts({t[i].Date : i \in DOMAIN t})
    IN  [k \in DOMAIN keys |->
            LET InGroup(r) == r.Date = keys[k]
                group == SelectSeq(t, InGroup)
            IN  [Date      |-> keys[k],
                 Confirmed |-> SumCol(group, "Confirmed"),
                 Recovered |-> SumCol(group, "Recovered"),
                 Deceased  |-> SumCol(group, "Deceased")]]

Tab1Idle ==
    /\ df = <<>> /\ daily = <<>> /\ n = 0 /\ range_type = ""
    /\ df_cumulative = <<>> /\ selected_states = <<>> /\ df_long = <<>>
Tab2Idle == pop_data = <<>> /\ covid_latest = <<>> /\ merged = <<>>
Tab3Idle == district_df = <<>> /\ centroids = <<>> /\ dist_merged = <<>>
Tab4Idle ==
    /\ raw_age = <<>> /\ age_df = <<>>
    /\ names = <<>> /\ parents = <<>> /\ values = <<>>

InitDaily ==
    /\ pc = "loaded"
    /\ df \in SeqsUpTo(DailyStateRecord, MaxDailyRows)
    /\ daily = <<>> /\ n = 0 /\ range_type = ""
    /\ df_cumulative = <<>> /\ selected_states = <<>> /\ df_long = <<>>
    /\ Tab2Idle /\ Tab3Idle /\ Tab4Idle

GroupDaily ==
    /\ pc = "loaded"
    /\ daily' = GroupByDateSum(df)
    /\ pc' = "daily"
    /\ UNCHANGED <<df, n, range_type, df_cumulative, selected_states, df_long>>
    /\ UNCHANGED <<tab2Vars, tab3Vars, tab4Vars>>

NextDaily == GroupDaily

SpecDaily == InitDaily /\ [][NextDaily]_vars

\* rows of df dated d
RowsOn(d) == {i \in DOMAIN df : df[i].Date = d}

RECURSIVE SumOver(_, _)
SumOver(I, col) ==
    IF I = {} THEN 0
    ELSE LET i == CHOOSE x \in I : TRUE
         IN  df[i][col] + SumOver(I \ {i}, col)

\* C1: the daily totals hold exactly one row per distinct Date of the input and
\* no other row, and each row's Confirmed, Recovered and Deceased equal the sum
\* of that field over exactly the input records of that Date.
C1_DailyTotals ==
    pc = "daily" =>
        /\ {daily[k].Date : k \in DOMAIN daily} = {df[i].Date : i \in DOMAIN df}
        /\ \A j, k \in DOMAIN daily : daily[j].Date = daily[k].Date => j = k
        /\ \A k \in DOMAIN daily :
              /\ daily[k].Confirmed = SumOver(RowsOn(daily[k].Date), "Confirmed")
              /\ daily[k].Recovered = SumOver(RowsOn(daily[k].Date), "Recovered")
              /\ daily[k].Deceased  = SumOver(RowsOn(daily[k].Date), "Deceased")

\* two dates, one of them carried by two records with non-zero counts
C1_Witness ==
    /\ pc = "daily"
    /\ Len(daily) = 2
    /\ \E i, j \in DOMAIN df :
          i # j /\ df[i].Date = df[j].Date /\ df[i].Confirmed > 0 /\ df[j].Confirmed > 0

----------------------------------------------------------------------------
(* Tab 1, race chart: pivot, Top-N/Bottom-N selection, long-form reshape.  *)

\* the slider st.slider("Select N", 3, 20, 10)
SliderMin == 3
SliderMax == 20
NValues == {SliderMin, SliderMax}
RangeTypes == {"Top N States", "Bottom N States"}

RaceRecord ==
    [State : StateNames, Date : Dates, Confirmed : 0..MaxCount,
     Recovered : {0}, Deceased : {0}]

\* df.pivot raises ValueError on a repeated (Date, State) pair and iloc[-1]
\* raises on an empty table: the script gets past line 180 only on a non-empty
\* table in which every (Date, State) pair occurs once.
KeysUnique(t) ==
    \A i, j \in DOMAIN t :
        (t[i].State = t[j].State /\ t[i].Date = t[j].Date) => i = j

RaceInputs ==
    {t \in SeqsUpTo(RaceRecord, MaxRaceRows) : t # <<>> /\ KeysUnique(t)}

\* df.pivot(index="Date", columns="State", values="Confirmed"): index and
\* columns come out sorted; a cell exists only where the input has a record.
Pivot(t) ==
    [index   |-> SortedInts({t[i].Date : i \in DOMAIN t}),
     columns |-> SortedBy(StateOrder, {t[i].State : i \in DOMAIN t}),
     cell    |-> [key \in {<<t[i].Date, t[i].State>> : i \in DOMAIN t} |->
                     (CHOOSE r \in Range(t) :
                          r.Date = key[1] /\ r.State = key[2]).Confirmed]]

\* .fillna(v): every missing (Date, State) cell of the pivot becomes v
FillNa(p, v) ==
    [index   |-> p.index,
     columns |-> p.columns,
     cell    |-> [key \in Range(p.index) \X Range(p.columns) |->
                     IF key \in DOMAIN p.cell THEN p.cell[key] ELSE v]]

\* .iloc[-1]: the last row of the pivot, a value per column
ILocLast(p) == [s \in Range(p.columns) |-> p.cell[<<p.index[Len(p.index)], s>>]]

Arrangements(S) ==
    {q \in [1..Cardinality(S) -> S] : \A i, j \in DOMAIN q : q[i] = q[j] => i = j}

\* variant: the direction of the sort inverted
SortValues_Flipped(row, ascending) ==
    {q \in Arrangements(DOMAIN row) :
        \A i, j \in DOMAIN q :
            i < j => IF ascending THEN row[q[i]] >= row[q[j]]
                                  ELSE row[q[i]] <= row[q[j]]}

\* Series.sort_values(ascending=...) with the default kind="quicksort", which
\* is not a stable sort: any arrangement of the labels with the values in
\* order is a possible result.
SortValues(row, ascending) ==
    {q \in Arrangements(DOMAIN row) :
        \A i, j \in DOMAIN q :
            i < j => IF ascending THEN row[q[i]] <= row[q[j]]
                                  ELSE row[q[i]] >= row[q[j]]}

\* .head(k)
HeadN(s, k) == SubSeq(s, 1, Min2(k, Len(s)))

\* variant: the rows stacked date by date
Melt_DateMajor(p, selected) ==
    LET w == Len(selected)
    IN  [k \in 1..(Len(p.index) * w) |->
            LET d == p.index[((k - 1) \div w) + 1]
                s == selected[((k - 1) % w) + 1]
            IN  [Date |-> d, State |-> s, Confirmed |-> p.cell[<<d, s>>]]]

\* df_cumulative[selected].reset_index().melt(id_vars="Date", ...): the
\* selected columns are stacked one after the other, each over the whole index.
Melt(p, selected) ==
    LET h == Len(p.index)
    IN  [k \in 1..(Len(selected) * h) |->
            LET s == selected[((k - 1) \div h) + 1]
                d == p.index[((k - 1) % h) + 1]
            IN  [Date |-> d, State |-> s, Confirmed |-> p.cell[<<d, s>>]]]

InitRace ==
    /\ pc = "loaded"
    /\ df \in RaceInputs
    /\ daily = <<>> /\ n = 0 /\ range_type = ""
    /\ df_cumulative = <<>> /\ selected_states = <<>> /\ df_long = <<>>
    /\ Tab2Idle /\ Tab3Idle /\ Tab4Idle

\* lines 173-177: the two widgets are read and the table is pivoted
PivotCumulative ==
    /\ pc = "loaded"
    /\ range_type' \in RangeTypes
    /\ n' \in NValues
    /\ df_cumulative' = FillNa(Pivot(df), 0)
    /\ pc' = "pivoted"
    /\ UNCHANGED <<df, daily, selected_states, df_long>>
    /\ UNCHANGED <<tab2Vars, tab3Vars, tab4Vars>>

\* lines 178-180
SelectStates ==
    /\ pc = "pivoted"
    /\ \E sorted \in SortValues(ILocLast(df_cumulative),
                                range_type = "Bottom N States") :
          selected_states' = HeadN(sorted, n)
    /\ pc' = "selected"
    /\ UNCHANGED <<df, daily, n, range_type, df_cumulative, df_long>>
    /\ UNCHANGED <<tab2Vars, tab3Vars, tab4Vars>>

\* lines 182-184
MeltLong ==
    /\ pc = "selected"
    /\ df_long' = Melt(df_cumulative, selected_states)
    /\ pc' = "melted"
    /\ UNCHANGED <<df, daily, n, range_type, df_cumulative, selected_states>>
    /\ UNCHANGED <<tab2Vars, tab3Vars, tab4Vars>>

NextRace == PivotCumulative \/ SelectStates \/ MeltLong

SpecRace == InitRace /\ [][NextRace]_vars

\* what the claims speak of, read off the input table
InputStates == {df[i].State : i \in DOMAIN df}
InputDates == {df[i].Date : i \in DOMAIN df}
MostRecentDate == CHOOSE d \in InputDates : \A e \in InputDates : e <= d
\* Confirmed of state s on date d, 0 where s has no record on d
ConfirmedOn(s, d) ==
    IF \E i \in DOMAIN df : df[i].State = s /\ df[i].Date = d
    THEN df[CHOOSE i \in DOMAIN df : df[i].State = s /\ df[i].Date = d].Confirmed
    ELSE 0
LatestValue(s) == ConfirmedOn(s, MostRecentDate)
Better(a, b) == IF range_type = "Top N States" THEN a > b ELSE a < b
Ranked == pc \in {"selected", "melted"}

\* C2: the selection holds exactly min(N, number of distinct states) distinct
\* states, in the order of their Confirmed on the most recent Date (0 without a
\* record on it), descending for Top and ascending for Bottom, and no
\* unselected state has a strictly better latest value than a selected one.
C2_RankingSizeAndOrder ==
    Ranked =>
        /\ Len(selected_states) = Min2(n, Cardinality(InputStates))
        /\ Range(selected_states) \subseteq InputStates
        /\ \A i, j \in DOMAIN selected_states :
              selected_states[i] = selected_states[j] => i = j
        /\ \A i, j \in DOMAIN selected_states :
              i < j => ~Better(LatestValue(selected_states[j]),
                               LatestValue(selected_states[i]))
        /\ \A s \in InputStates \ Range(selected_states) :
              \A i \in DOMAIN selected_states :
                  ~Better(LatestValue(s), LatestValue(selected_states[i]))

\* four states with two distinct latest values, one of them without a record on
\* the most recent date, cut down to N = 3
C2_Witness ==
    /\ Ranked
    /\ n = SliderMin
    /\ Cardinality(InputStates) > n
    /\ Len(selected_states) = n
    /\ \E s, t \in InputStates : LatestValue(s) # LatestValue(t)
    /\ \E s \in InputStates : \A i \in DOMAIN df :
          df[i].State = s => df[i].Date # MostRecentDate

\* first row of state s in the input
FirstRow(s) == CHOOSE i \in DOMAIN df :
                   df[i].State = s /\ \A j \in 1..(i - 1) : df[j].State # s

\* C3: two states tied on the latest value are placed in the order of their
\* first records in the input, and of two tied states of which only one is
\* selected it is the earlier one.
C3_TieBreakInputOrder ==
    Ranked =>
        /\ \A i, j \in DOMAIN selected_states :
              (i < j /\ LatestValue(selected_states[i]) = LatestValue(selected_states[j]))
                  => FirstRow(selected_states[i]) < FirstRow(selected_states[j])
        /\ \A s \in Range(selected_states) :
              \A t \in InputStates \ Range(selected_states) :
                  LatestValue(s) = LatestValue(t) => FirstRow(s) < FirstRow(t)

SelPos(s) == IndexOf(selected_states, s)

\* C8 as stated: one triple per selected state and distinct Date, Confirmed 0
\* where the state has no record, ordered by Date and within a Date by the
\* selection order of State.
C8_LongFormDateMajor ==
    pc = "melted" =>
        /\ Len(df_long) = Len(selected_states) * Cardinality(InputDates)
        /\ \A k \in DOMAIN df_long :
              df_long[k].Confirmed = ConfirmedOn(df_long[k].State, df_long[k].Date)
        /\ \A j, k \in DOMAIN df_long :
              j < k => \/ df_long[j].Date < df_long[k].Date
                       \/ /\ df_long[j].Date = df_long[k].Date
                          /\ SelPos(df_long[j].State) < SelPos(df_long[k].State)

\* C8 amended: one triple per selected state and distinct Date, Confirmed 0
\* where the state has no record, ordered by the selection order of State and
\* within a State by Date ascending.
C8_LongFormStateMajor ==
    pc = "melted" =>
        /\ Len(df_long) = Len(selected_states) * Cardinality(InputDates)
        /\ \A s \in Range(selected_states) : \A d \in InputDates :
              \E k \in DOMAIN df_long :
                  /\ df_long[k].State = s /\ df_long[k].Date = d
                  /\ \A j \in DOMAIN df_long :
                        (df_long[j].State = s /\ df_long[j].Date = d) => j = k
        /\ \A k \in DOMAIN df_long :
              /\ df_long[k].State \in Range(selected_states)
              /\ df_long[k].Date \in InputDates
              /\ df_long[k].Confirmed = ConfirmedOn(df_long[k].State, df_long[k].Date)
        /\ \A j, k \in DOMAIN df_long :
              j < k => \/ SelPos(df_long[j].State) < SelPos(df_long[k].State)
                       \/ /\ df_long[j].State = df_long[k].State
                          /\ df_long[j].Date < df_long[k].Date

\* three selected states over two dates, one cell filled with 0
C8_Witness ==
    /\ pc = "melted"
    /\ Len(selected_states) >= 3
    /\ Cardinality(InputDates) = 2
    /\ \E k \in DOMAIN df_long :
          /\ df_long[k].Confirmed = 0
          /\ \A i \in DOMAIN df :
                ~(df[i].State = df_long[k].State /\ df[i].Date = df_long[k].Date)
    /\ \E k \in DOMAIN df_long : df_long[k].Confirmed > 0

----------------------------------------------------------------------------
(* Tab 2: latest-per-state snapshot merged with the population table.      *)

\* rows of the state table fed to the snapshot
MaxSnapshotRows == 3
\* rows of the population table
MaxPopRows == 3

SnapshotRecord ==
    [State : {"Bihar", "Goa"}, Date : Dates, Confirmed : 0..MaxCount,
     Recovered : {0}, Deceased : {0}]

\* "goa" differs from "Goa" by case only
PopulationRecord ==
    [State : {"Bihar", "Goa", "goa"}, Population : {1200}, Density : {300}]

\* groupby("State").last().reset_index(): one row per State, ascending by
\* State, holding the last value of every column in row order.
GroupByStateLast(t) ==
    LET keys == SortedBy(StateOrder, {t[i].State : i \in DOMAIN t})
    IN  [k \in DOMAIN keys |->
            LET InGroup(r) == r.State = keys[k]
                group == SelectSeq(t, InGroup)
            IN  group[Len(group)]]

\* variant: join keys compared without regard to case
KeyEqual_CaseFold(a, b) ==
    LET fold(x) == IF x = "goa" THEN "Goa" ELSE x
    IN  fold(a) = fold(b)

\* the join key comparison of pd.merge(..., on="State")
KeyEqual(a, b) == a = b

\* pd.merge(left, right, on="State") (how="inner"): for every left row in
\* order, one output row per right row with the same key, in right order.
RECURSIVE MergeOnState(_, _)
MergeOnState(left, right) ==
    IF left = <<>> THEN <<>>
    ELSE LET l == Head(left)
             Match(r) == KeyEqual(l.State, r.State)
             hits == SelectSeq(right, Match)
         IN  [k \in DOMAIN hits |->
                 [State |-> l.State, Date |-> l.Date, Confirmed |-> l.Confirmed,
                  Recovered |-> l.Recovered, Deceased |-> l.Deceased,
                  Population |-> hits[k].Population, Density |-> hits[k].Density]]
             \o MergeOnState(Tail(left), right)

InitMerge ==
    /\ pc = "loaded"
    /\ df \in {t \in SeqsUpTo(SnapshotRecord, MaxSnapshotRows) : KeysUnique(t)}
    /\ pop_data \in SeqsUpTo(PopulationRecord, MaxPopRows)
    /\ covid_latest = <<>> /\ merged = <<>>
    /\ daily = <<>> /\ n = 0 /\ range_type = ""
    /\ df_cumulative = <<>> /\ selected_states = <<>> /\ df_long = <<>>
    /\ Tab3Idle /\ Tab4Idle

\* line 242
TakeLatest ==
    /\ pc = "loaded"
    /\ covid_latest' = GroupByStateLast(df)
    /\ pc' = "latest"
    /\ UNCHANGED <<pop_data, merged, tab1Vars, tab3Vars, tab4Vars>>

\* line 243
MergePopulation ==
    /\ pc = "latest"
    /\ merged' = MergeOnState(covid_latest, pop_data)
    /\ pc' = "merged"
    /\ UNCHANGED <<pop_data, covid_latest, tab1Vars, tab3Vars, tab4Vars>>

NextMerge == TakeLatest \/ MergePopulation

SpecMerge == InitMerge /\ [][NextMerge]_vars

SnapshotStates == {covid_latest[k].State : k \in DOMAIN covid_latest}
PopStates == {pop_data[k].State : k \in DOMAIN pop_data}
PopStatesUnique ==
    \A j, k \in DOMAIN pop_data : pop_data[j].State = pop_data[k].State => j = k

\* C4: with unique State values in the population table, the merged output has
\* a row for state s iff s occurs, by exact string equality, in both the
\* snapshot and the population table, and then exactly one row.
C4_InnerJoinExact ==
    (pc = "merged" /\ PopStatesUnique) =>
        /\ {merged[k].State : k \in DOMAIN merged} = SnapshotStates \cap PopStates
        /\ \A j, k \in DOMAIN merged : merged[j].State = merged[k].State => j = k

\* one state in both tables, one only in the snapshot, one only in the
\* population table (differing from a snapshot state by case only)
C4_Witness ==
    /\ pc = "merged"
    /\ PopStatesUnique
    /\ SnapshotStates = {"Bihar", "Goa"}
    /\ PopStates = {"Bihar", "goa"}
    /\ Len(merged) = 1

\* C10: the snapshot row of every state is the input record of that state with
\* the maximum Date, whatever the row order of the input.
C10_SnapshotIsMaxDate ==
    pc \in {"latest", "merged"} =>
        \A k \in DOMAIN covid_latest :
            \E i \in DOMAIN df :
                /\ df[i] = covid_latest[k]
                /\ \A j \in DOMAIN df :
                      df[j].State = df[i].State => df[j].Date <= df[i].Date

----------------------------------------------------------------------------
(* Tab 3: district zone classification for May 2021.                       *)

\* rows of the district table
MaxDistrictRows == 2
\* rows of the centroid table
MaxCentroidRows == 2

\* the window of line 296 and the thresholds of line 304
TargetMonth == 5
TargetYear == 2021
RedThreshold == 20000
OrangeThreshold == 5000

\* District names in ascending string order.
DistrictOrder == <<"Agra", "Pune">>

\* dates as <<year, month, day>>: two inside the window, one in the month
\* before, one in the same month of another year
DistrictDates == {<<2021, 5, 1>>, <<2021, 5, 31>>, <<2021, 4, 30>>, <<2020, 5, 15>>}

ConfirmedLevels ==
    {OrangeThreshold - 1, OrangeThreshold, RedThreshold - 1, RedThreshold}

DistrictRecord ==
    [District : Range(DistrictOrder), Date : DistrictDates,
     Confirmed : ConfirmedLevels, Recovered : {100}, Deceased : {10}]

Centroid ==
    [District : Range(DistrictOrder), Latitude : {27}, Longitude : {78}]

\* df[(df['Date'].dt.month == 5) & (df['Date'].dt.year == 2021)]
InMay2021(r) == r.Date[2] = TargetMonth /\ r.Date[1] = TargetYear

RECURSIVE MaxCol(_, _)
MaxCol(t, col) ==
    IF Len(t) = 1 THEN t[1][col]
    ELSE LET m == MaxCol(Tail(t), col)
         IN  IF t[1][col] >= m THEN t[1][col] ELSE m

\* groupby("District")[[...]].max().reset_index(): one row per District,
\* ascending by District, each column the maximum over the group.
GroupByDistrictMax(t) ==
    LET keys == SortedBy(DistrictOrder, {t[i].District : i \in DOMAIN t})
    IN  [k \in DOMAIN keys |->
            LET InGroup(r) == r.District = keys[k]
                group == SelectSeq(t, InGroup)
            IN  [District  |-> keys[k],
                 Confirmed |-> MaxCol(group, "Confirmed"),
                 Recovered |-> MaxCol(group, "Recovered"),
                 Deceased  |-> MaxCol(group, "Deceased")]]

\* pd.merge(district_max, centroids, on="District") (how="inner")
RECURSIVE MergeOnDistrict(_, _)
MergeOnDistrict(left, right) ==
    IF left = <<>> THEN <<>>
    ELSE LET l == Head(left)
             Match(r) == r.District = l.District
             hits == SelectSeq(right, Match)
         IN  [k \in DOMAIN hits |->
                 [District |-> l.District, Confirmed |-> l.Confirmed,
                  Recovered |-> l.Recovered, Deceased |-> l.Deceased,
                  Latitude |-> hits[k].Latitude, Longitude |-> hits[k].Longitude]]
             \o MergeOnDistrict(Tail(left), right)

\* variant: the thresholds as exclusive lower bounds
Classify_Exclusive(c) ==
    IF c > RedThreshold THEN "Red"
    ELSE IF c > OrangeThreshold THEN "Orange" ELSE "Green"

\* lambda c: 'Red' if c >= 20000 else 'Orange' if c >= 5000 else 'Green'
Classify(c) ==
    IF c >= RedThreshold THEN "Red"
    ELSE IF c >= OrangeThreshold THEN "Orange" ELSE "Green"

InitGeo ==
    /\ pc = "loaded"
    /\ district_df \in SeqsUpTo(DistrictRecord, MaxDistrictRows)
    /\ centroids \in SeqsUpTo(Centroid, MaxCentroidRows)
    /\ dist_merged = <<>>
    /\ Tab1Idle /\ Tab2Idle /\ Tab4Idle

\* lines 296-300
MergeDistrictMax ==
    /\ pc = "loaded"
    /\ LET df_may == SelectSeq(district_df, InMay2021)
           district_max == GroupByDistrictMax(df_may)
       IN  dist_merged' = MergeOnDistrict(district_max, centroids)
    /\ pc' = "dist_merged"
    /\ UNCHANGED <<district_df, centroids, tab1Vars, tab2Vars, tab4Vars>>

\* lines 303-305
ClassifyDistricts ==
    /\ pc = "dist_merged"
    /\ dist_merged' =
          [k \in DOMAIN dist_merged |->
              [District |-> dist_merged[k].District,
               Confirmed |-> dist_merged[k].Confirmed,
               Recovered |-> dist_merged[k].Recovered,
               Deceased |-> dist_merged[k].Deceased,
               Latitude |-> dist_merged[k].Latitude,
               Longitude |-> dist_merged[k].Longitude,
               Classification |-> Classify(dist_merged[k].Confirmed)]]
    /\ pc' = "classified"
    /\ UNCHANGED <<district_df, centroids, tab1Vars, tab2Vars, tab4Vars>>

NextGeo == MergeDistrictMax \/ ClassifyDistricts

SpecGeo == InitGeo /\ [][NextGeo]_vars

\* rows of district d inside the window, rows of the centroid table for d
WindowRows(d) ==
    {i \in DOMAIN district_df :
        /\ district_df[i].District = d
        /\ district_df[i].Date[1] = 2021 /\ district_df[i].Date[2] = 5}
CentroidRows(d) == {i \in DOMAIN centroids : centroids[i].District = d}
OutputRows(d) == {k \in DOMAIN dist_merged : dist_merged[k].District = d}
PeakConfirmed(d) ==
    LET I == WindowRows(d)
    IN  district_df[CHOOSE i \in I :
            \A j \in I : district_df[j].Confirmed <= district_df[i].Confirmed].Confirmed
AllDistricts ==
    {district_df[i].District : i \in DOMAIN district_df}
        \cup {centroids[i].District : i \in DOMAIN centroids}
RowAsClaimed(k) ==
    LET c == dist_merged[k].Confirmed
    IN  /\ c = PeakConfirmed(dist_merged[k].District)
        /\ (c >= 20000 => dist_merged[k].Classification = "Red")
        /\ ((c >= 5000 /\ c < 20000) => dist_merged[k].Classification = "Orange")
        /\ (c < 5000 => dist_merged[k].Classification = "Green")

\* C5 as stated: a district with a record in the window and a centroid yields
\* exactly one row, with the peak Confirmed of the window and its tier; any
\* other district yields none.
C5_OneRowPerDistrict ==
    pc = "classified" =>
        /\ \A d \in AllDistricts :
              Cardinality(OutputRows(d)) =
                  IF WindowRows(d) # {} /\ CentroidRows(d) # {} THEN 1 ELSE 0
        /\ \A k \in DOMAIN dist_merged : RowAsClaimed(k)

\* C5 amended: a district with a record in the window yields one row per row
\* the centroid table holds for it (exactly one when the table lists it once),
\* each with the peak Confirmed of the window and its tier; a district with no
\* record in the window or no centroid row yields none.
C5_OneRowPerCentroidRow ==
    pc = "classified" =>
        /\ \A d \in AllDistricts :
              Cardinality(OutputRows(d)) =
                  IF WindowRows(d) # {} THEN Cardinality(CentroidRows(d)) ELSE 0
        /\ \A k \in DOMAIN dist_merged : RowAsClaimed(k)

\* a district listed once in the centroid table, with two records of different
\* Confirmed inside the window, whose peak sits on the Red threshold
C5_Witness ==
    /\ pc = "classified"
    /\ Cardinality(WindowRows("Agra")) = 2
    /\ \E i, j \in WindowRows("Agra") :
          district_df[i].Confirmed < district_df[j].Confirmed
    /\ Cardinality(CentroidRows("Agra")) = 1
    /\ \E k \in DOMAIN dist_merged :
          dist_merged[k].Confirmed = 20000 /\ dist_merged[k].Classification = "Red"

----------------------------------------------------------------------------
(* Tab 4: person records, age groups and the sunburst rollup.              *)

\* rows of the raw person table
MaxRawRows == 2
\* rows of the cleaned person table fed to the rollup
MaxPersons == 3

\* a missing cell of a text column, as read_csv reads it
NA == "NaN"

\* an age cell is a number, a text that is no number, or missing
AgeCell ==
    [kind : {"num"}, val : {0, 39, 40, 41, 59, 60, 61, 99}]
        \cup {[kind |-> "text", val |-> 0], [kind |-> "nan", val |-> 0]}

RawPersonRecord ==
    [age : AgeCell, gender : {"F", NA}, current_status : {"Recovered", NA}]

\* variant: 60 excluded from the middle bucket
AgeGroup_Exclusive(x) ==
    IF x < 40 THEN "< 40" ELSE IF x < 60 THEN "40 - 60" ELSE "> 60"

\* lambda x: "< 40" if x < 40 else "40 - 60" if x <= 60 else "> 60"
AgeGroup(x) ==
    IF x < 40 THEN "< 40" ELSE IF x <= 60 THEN "40 - 60" ELSE "> 60"

\* load_age_data: rows with a missing age, gender or status are dropped, age is
\* coerced to a number (a text that is no number becomes missing and the row is
\* dropped), and age_group is derived from the age.
LoadAgeData(raw) ==
    LET Present(r) == r.age.kind # "nan" /\ r.gender # NA /\ r.current_status # NA
        Numeric(r) == r.age.kind = "num"
        kept == SelectSeq(SelectSeq(raw, Present), Numeric)
    IN  [k \in DOMAIN kept |->
            [age |-> kept[k].age.val, gender |-> kept[k].gender,
             current_status |-> kept[k].current_status,
             age_group |-> AgeGroup(kept[k].age.val)]]

InitAge ==
    /\ pc = "reading"
    /\ raw_age \in SeqsUpTo(RawPersonRecord, MaxRawRows)
    /\ age_df = <<>> /\ names = <<>> /\ parents = <<>> /\ values = <<>>
    /\ Tab1Idle /\ Tab2Idle /\ Tab3Idle

\* line 346
LoadAge ==
    /\ pc = "reading"
    /\ age_df' = LoadAgeData(raw_age)
    /\ pc' = "age_loaded"
    /\ UNCHANGED <<raw_age, names, parents, values, tab1Vars, tab2Vars, tab3Vars>>

NextAge == LoadAge

SpecAge == InitAge /\ [][NextAge]_vars

\* the raw rows that carry a numeric age, a gender and a status
CleanRows ==
    {i \in DOMAIN raw_age :
        /\ raw_age[i].age.kind = "num"
        /\ raw_age[i].gender # NA /\ raw_age[i].current_status # NA}

\* C9 as stated: the labels are <40, 40-60 and >60.
C9_AgeGroupLabelsAsStated ==
    pc = "age_loaded" =>
        /\ Len(age_df) = Cardinality(CleanRows)
        /\ \A k \in DOMAIN age_df :
              LET a == age_df[k].age
              IN  /\ (a < 40 => age_df[k].age_group = "<40")
                  /\ ((40 <= a /\ a <= 60) => age_df[k].age_group = "40-60")
                  /\ (a > 60 => age_df[k].age_group = ">60")

\* C9 amended: every record with a numeric age gets exactly one label, "< 40"
\* if a < 40, "40 - 60" if 40 <= a <= 60 and "> 60" if a > 60 (the labels carry
\* spaces); 40 and 60 fall into "40 - 60" and 61 into "> 60".
C9_AgeGroupBuckets ==
    pc = "age_loaded" =>
        /\ Len(age_df) = Cardinality(CleanRows)
        /\ \A k \in DOMAIN age_df :
              LET a == age_df[k].age
              IN  /\ (a < 40 => age_df[k].age_group = "< 40")
                  /\ ((40 <= a /\ a <= 60) => age_df[k].age_group = "40 - 60")
                  /\ (a > 60 => age_df[k].age_group = "> 60")

\* the two upper boundary ages side by side
C9_Witness ==
    /\ pc = "age_loaded"
    /\ \E j, k \in DOMAIN age_df :
          /\ age_df[j].age = 60 /\ age_df[j].age_group = "40 - 60"
          /\ age_df[k].age = 61 /\ age_df[k].age_group = "> 60"

----------------------------------------------------------------------------
(* Tab 4: the rollup Total -> gender -> gender-age_group -> ...-status.    *)

\* the values of the three grouping columns, each in ascending string order
GenderOrder == <<"F", "M">>
AgeGroupOrder == <<"40 - 60", "< 40", "> 60">>
StatusOrder == <<"Deceased", "Recovered">>

PersonRecord ==
    {[age |-> a, gender |-> g, current_status |-> st, age_group |-> AgeGroup(a)] :
        a \in {39, 50, 61}, g \in Range(GenderOrder), st \in Range(StatusOrder)}

RECURSIVE Flatten(_)
Flatten(ss) == IF ss = <<>> THEN <<>> ELSE Head(ss) \o Flatten(Tail(ss))

\* Series.unique(): the distinct values in order of first appearance
RECURSIVE Unique(_)
Unique(s) ==
    IF s = <<>> THEN <<>>
    ELSE LET rest == Unique(SubSeq(s, 1, Len(s) - 1))
             x == s[Len(s)]
         IN  IF x \in Range(rest) THEN rest ELSE Append(rest, x)

Column(t, col) == [k \in DOMAIN t |-> t[k][col]]

\* df.groupby(["gender", "age_group", "current_status"]).size()
\*   .reset_index(name="count"): one row per combination that occurs, in
\* ascending order of the three keys, with the number of its records.
GroupBySize(t) ==
    Flatten([g \in DOMAIN GenderOrder |->
      Flatten([a \in DOMAIN AgeGroupOrder |->
        Flatten([st \in DOMAIN StatusOrder |->
          LET InGroup(r) == /\ r.gender = GenderOrder[g]
                            /\ r.age_group = AgeGroupOrder[a]
                            /\ r.current_status = StatusOrder[st]
              size == Len(SelectSeq(t, InGroup))
          IN  IF size = 0 THEN <<>>
              ELSE <<[gender |-> GenderOrder[g], age_group |-> AgeGroupOrder[a],
                      current_status |-> StatusOrder[st], count |-> size]>>])])])

RECURSIVE SumCount(_)
SumCount(t) == IF t = <<>> THEN 0 ELSE Head(t).count + SumCount(Tail(t))

\* line 354
GenderTotal(grouped, gender) ==
    LET Sel(r) == r.gender = gender
    IN  SumCount(SelectSeq(grouped, Sel))

\* variant: the gender condition of line 360 dropped
AgeTotal_AnyGender(grouped, gender, age_group) ==
    LET Sel(r) == r.age_group = age_group
    IN  SumCount(SelectSeq(grouped, Sel))

\* line 360
AgeTotal(grouped, gender, age_group) ==
    LET Sel(r) == r.gender = gender /\ r.age_group = age_group
    IN  SumCount(SelectSeq(grouped, Sel))

\* line 367
StatusTotal(grouped, gender, age_group, status) ==
    LET Sel(r) == /\ r.gender = gender /\ r.age_group = age_group
                  /\ r.current_status = status
    IN  SumCount(SelectSeq(grouped, Sel))

\* line 359: the age groups looped over under a gender
AgeGroupsUnder(grouped, gender) == Unique(Column(grouped, "age_group"))

\* line 366: the statuses looped over under a gender and an age group
StatusesUnder(grouped, gender, age_group) ==
    Unique(Column(grouped, "current_status"))

\* lines 349-370: the nodes in the order the three nested loops append them
RollupNodes(grouped) ==
    LET genders == Unique(Column(grouped, "gender"))
    IN  <<[name |-> "Total", parent |-> "", value |-> SumCount(grouped)]>>
        \o Flatten([g \in DOMAIN genders |->
             LET gender == genders[g]
                 groups == AgeGroupsUnder(grouped, gender)
             IN  <<[name |-> gender, parent |-> "Total",
                    value |-> GenderTotal(grouped, gender)]>>
                 \o Flatten([a \in DOMAIN groups |->
                      LET label == gender \o "-" \o groups[a]
                          statuses == StatusesUnder(grouped, gender, groups[a])
                      IN  <<[name |-> label, parent |-> gender,
                             value |-> AgeTotal(grouped, gender, groups[a])]>>
                          \o [st \in DOMAIN statuses |->
                                [name |-> label \o "-" \o statuses[st],
                                 parent |-> label,
                                 value |-> StatusTotal(grouped, gender, groups[a],
                                                       statuses[st])]]])])

InitRollup ==
    /\ pc = "age_loaded"
    /\ raw_age = <<>>
    /\ age_df \in SeqsUpTo(PersonRecord, MaxPersons)
    /\ names = <<>> /\ parents = <<>> /\ values = <<>>
    /\ Tab1Idle /\ Tab2Idle /\ Tab3Idle

\* lines 347-370
BuildRollup ==
    /\ pc = "age_loaded"
    /\ LET nodes == RollupNodes(GroupBySize(age_df))
       IN  /\ names' = Column(nodes, "name")
           /\ parents' = Column(nodes, "parent")
           /\ values' = Column(nodes, "value")
    /\ pc' = "rolled"
    /\ UNCHANGED <<raw_age, age_df, tab1Vars, tab2Vars, tab3Vars>>

NextRollup == BuildRollup

SpecRollup == InitRollup /\ [][NextRollup]_vars

Genders == {age_df[i].gender : i \in DOMAIN age_df}
AgeGroups == {age_df[i].age_group : i \in DOMAIN age_df}
Statuses == {age_df[i].current_status : i \in DOMAIN age_df}
Pairs == {<<age_df[i].gender, age_df[i].age_group>> : i \in DOMAIN age_df}
Triples ==
    {<<age_df[i].gender, age_df[i].age_group, age_df[i].current_status>> :
        i \in DOMAIN age_df}
PairLabel(p) == p[1] \o "-" \o p[2]
TripleLabel(t) == t[1] \o "-" \o t[2] \o "-" \o t[3]
\* the level of node i: 0 the root, 1 a gender, 2 gender-age_group, 3 a leaf
Level(i) ==
    IF parents[i] = "" THEN 0
    ELSE IF parents[i] = "Total" THEN 1
    ELSE IF parents[i] \in Genders THEN 2 ELSE 3

RECURSIVE SumValues(_)
SumValues(I) ==
    IF I = {} THEN 0
    ELSE LET i == CHOOSE x \in I : TRUE IN values[i] + SumValues(I \ {i})

ChildrenOf(i) == {j \in DOMAIN names : parents[j] = names[i]}

\* C6: the root Total counts the input records, and the count of every
\* non-leaf node (root, gender, gender-age_group) is the sum of the counts of
\* the nodes whose parent it is.
C6_RollupConsistency ==
    pc = "rolled" =>
        /\ names[1] = "Total" /\ parents[1] = "" /\ values[1] = Len(age_df)
        /\ \A i \in DOMAIN names :
              Level(i) <= 2 => values[i] = SumValues(ChildrenOf(i))

\* both genders, with different age groups and statuses, three records
C6_Witness ==
    /\ pc = "rolled"
    /\ values[1] = 3
    /\ Genders = {"F", "M"}
    /\ Cardinality(AgeGroups) >= 2
    /\ Cardinality(Statuses) = 2
    /\ \E i \in DOMAIN names : Level(i) = 2 /\ values[i] = 2

\* C7: every level-2 node is a (gender, age_group) pair of some record, every
\* level-3 node a (gender, age_group, status) triple of some record, and no
\* such node has count 0.
C7_OnlyObservedCombinations ==
    pc = "rolled" =>
        \A i \in DOMAIN names :
            /\ Level(i) = 2 => \E p \in Pairs : names[i] = PairLabel(p)
            /\ Level(i) = 3 => \E t \in Triples : names[i] = TripleLabel(t)
            /\ Level(i) >= 2 => values[i] > 0


====
